---- MODULE Spec2Model ----
(***************************************************************************)
(* A model of the resume / job-description matching pipeline:              *)
(*   src/scoring.py     cosine similarity, match score, top-k evidence     *)
(*   src/embeddings.py  EmbeddingService and the local hashing fallback    *)
(*   src/parsing.py     text and fact extraction                           *)
(*   src/workflow.py    the workflow trace                                 *)
(*   s.py, latest.py    the analysis run of main(), the resume builder     *)
(*   src/r2.py          the gaps of an employment history                  *)
(*                                                                         *)
(* Floats are fixed-point integers in units of 1/Scale, every float        *)
(* operation rounding to the nearest unit, in the order the code applies   *)
(* them.  Strings are atoms; lower() and the alphabetical order are        *)
(* tables over the strings of the model.                                   *)
(***************************************************************************)
EXTENDS Integers, Sequences, FiniteSets, TLC

VARIABLES
    fn,         \* harness: the function called ("none" before any call)
    args,       \* harness: its arguments
    ret,        \* harness: its outcome, [kind |-> "none" | "return" | "raise", ...]
    environ,    \* os.environ: the variables src/embeddings.py reads
    module,     \* src/embeddings.py as imported: its module-level names
    services,   \* the EmbeddingService instances constructed so far
    earlier,    \* one embedding an observer remembers: [svc, text, vector]
    runs,       \* the analysis runs of main(): one record per run
    session_state,  \* st.session_state of a resume-builder session: lists and widgets
    page        \* the resume-builder page: the last event and what its script run showed

harnessVars == <<fn, args, ret>>
embedVars == <<environ, module, services, earlier>>
builderVars == <<session_state, page>>
vars == <<fn, args, ret, environ, module, services, earlier, runs, session_state, page>>

-----------------------------------------------------------------------------
(* Bounds of the model *)

Digits == 2            \* decimal digits a float of the model keeps
MaxDim == 2            \* longest vector handed to the scoring functions
MaxSkills == 2         \* longest skill list
MaxCorpus == 3         \* longest corpus list of top_k_matches
MaxK == 3              \* largest k of top_k_matches
Dimension == 3         \* the dimension of the local embedding (768 in the code)
MaxTextLen == 1        \* longest text handed to an EmbeddingService, in characters
MaxBatch == 2          \* longest list of texts of one embed_texts call
MaxPages == 2          \* most pages of an uploaded document
MaxNameLen == 5        \* longest text handed to extract_name, in characters
MaxPhoneLen == 9       \* longest run of digits and hyphens handed to extract_phone
MaxEmailLen == 6       \* longest text handed to extract_email, in characters
MaxPieces == 3         \* most pieces of a text handed to extract_skills
MaxSteps == 3          \* longest list of stage results handed to build_workflow_trace
MaxLocalLen == 3       \* longest text of the two embedded by the local backend and matched
MaxMonth == 3          \* the months of the employment history are 0..MaxMonth, the last one now
MaxJobs == 3           \* longest employment history
MaxRows == 3           \* most rows of a list of the resume-builder form

Scale == 10 ^ Digits   \* fixed-point units per 1.0

\* the components of the vectors handed to the scoring functions: -1.0, 0.0, 1.0
Components == {-Scale, 0, Scale}

Vectors == UNION {[1..n -> Components] : n \in 0..MaxDim}

-----------------------------------------------------------------------------
(* Generic helpers *)

Min(a, b) == IF a <= b THEN a ELSE b
Max(a, b) == IF a >= b THEN a ELSE b
Abs(a) == IF a < 0 THEN -a ELSE a

Range(s) == {s[i] : i \in DOMAIN s}

RECURSIVE SumTo(_, _)
\* sum of f[1..n]
SumTo(f, n) == IF n = 0 THEN 0 ELSE f[n] + SumTo(f, n - 1)

\* a / b rounded to the nearest integer (b > 0), half away from zero
RoundDiv(a, b) ==
    IF a >= 0 THEN (2 * a + b) \div (2 * b) ELSE -((2 * (-a) + b) \div (2 * b))

RECURSIVE SqrtSearch(_, _, _)
\* the largest r in lo..hi with r * r <= n
SqrtSearch(n, lo, hi) ==
    IF lo >= hi THEN lo
    ELSE LET mid == (lo + hi + 1) \div 2
         IN  IF mid * mid <= n THEN SqrtSearch(n, mid, hi)
             ELSE SqrtSearch(n, lo, mid - 1)

\* the integer nearest to the square root of n
RoundSqrt(n) ==
    LET r == SqrtSearch(n, 0, Min(n, 40000))
    IN  IF n - r * r > r THEN r + 1 ELSE r

(* Float operations on fixed-point values *)
Float(n) == n * Scale
FMul(x, y) == RoundDiv(x * y, Scale)
FDiv(x, y) == IF y > 0 THEN RoundDiv(x * Scale, y) ELSE -RoundDiv(x * Scale, -y)
FSqrt(x) == RoundSqrt(x * Scale)

(* The outcome of a call *)
NoRet == [kind |-> "none"]
Return(v) == [kind |-> "return", value |-> v]
Raise(e) == [kind |-> "raise", error |-> e]

-----------------------------------------------------------------------------
(* Strings: the skill names of the model, lower() and sorted() *)

SkillNames == {"Python", "python", "sql"}

\* str.lower() on the strings of the model
lower(s) == IF s = "Python" THEN "python" ELSE s

\* Python's string order (code points: upper case before lower case)
StrOrder == <<"Python", "aws", "python", "sql">>
StrRank(s) == CHOOSE i \in DOMAIN StrOrder : StrOrder[i] = s

RECURSIVE sorted(_)
\* sorted(list(S)) of a set S of strings: ascending
sorted(S) ==
    IF S = {} THEN <<>>
    ELSE LET m == CHOOSE x \in S : \A y \in S : StrRank(x) <= StrRank(y)
         IN  <<m>> \o sorted(S \ {m})

SkillLists == UNION {[1..n -> SkillNames] : n \in 0..MaxSkills}

-----------------------------------------------------------------------------
(* src/scoring.py *)

\* dot: zip() stops at the shorter vector
dot(a, b) ==
    LET n == Min(Len(a), Len(b))
    IN  SumTo([i \in 1..n |-> FMul(a[i], b[i])], n)

norm(a) == FSqrt(SumTo([i \in 1..Len(a) |-> FMul(a[i], a[i])], Len(a)))

cosine_similarity(a, b) ==
    LET p == FMul(norm(a), norm(b))
        denom == IF p = 0 THEN Float(1) ELSE p      \* (norm(a) * norm(b)) or 1.0
    IN  FDiv(dot(a, b), denom)

\* the f-string of the explanation: the values it prints, at the precision it prints
Explanation(sim, skill_overlap, skill_union, score_pct) ==
    [similarity |-> RoundDiv(sim * 100, Scale),
     overlap |-> skill_overlap,
     union |-> skill_union,
     score |-> RoundDiv(score_pct * 10, Scale)]

\* a mutant of compute_match_score: the skills are compared without lower()
compute_match_score_nolower(resume_vec, job_vec, resume_skills, job_skills) ==
    LET sim == cosine_similarity(resume_vec, job_vec)
        rs == Range(resume_skills)
        js == Range(job_skills)
        skill_overlap == Cardinality(rs \cap js)
        skill_union == IF Cardinality(rs \cup js) = 0 THEN 1 ELSE Cardinality(rs \cup js)
        jaccard == FDiv(Float(skill_overlap), Float(skill_union))
        score == FMul((7 * Scale) \div 10, sim) + FMul((3 * Scale) \div 10, jaccard)
        score_pct == FMul(Max(0, Min(Float(1), score)), Float(100))
        confidence == Scale \div 2 + FMul(Scale \div 2, Min(sim, Float(1)))
    IN  [similarity |-> sim, jaccard |-> jaccard, score |-> score_pct,
         confidence |-> confidence, missing_skills |-> sorted(js \ rs),
         explanation |-> Explanation(sim, skill_overlap, skill_union, score_pct)]

\* a mutant of compute_match_score: the overlap is divided by the number of
\* job skills instead of the size of the union
compute_match_score_over_job(resume_vec, job_vec, resume_skills, job_skills) ==
    LET sim == cosine_similarity(resume_vec, job_vec)
        rs == {lower(s) : s \in Range(resume_skills)}
        js == {lower(s) : s \in Range(job_skills)}
        skill_overlap == Cardinality(rs \cap js)
        skill_union == IF Cardinality(js) = 0 THEN 1 ELSE Cardinality(js)
        jaccard == FDiv(Float(skill_overlap), Float(skill_union))
        score == FMul((7 * Scale) \div 10, sim) + FMul((3 * Scale) \div 10, jaccard)
        score_pct == FMul(Max(0, Min(Float(1), score)), Float(100))
        confidence == Scale \div 2 + FMul(Scale \div 2, Min(sim, Float(1)))
    IN  [similarity |-> sim, jaccard |-> jaccard, score |-> score_pct,
         confidence |-> confidence, missing_skills |-> sorted(js \ rs),
         explanation |-> Explanation(sim, skill_overlap, skill_union, score_pct)]

\* a mutant of compute_match_score: the union size is not floored at 1
\* (len(rs | js) without "or 1"), and the division by zero gets out
compute_match_score_no_floor(resume_vec, job_vec, resume_skills, job_skills) ==
    LET sim == cosine_similarity(resume_vec, job_vec)
        rs == {lower(s) : s \in Range(resume_skills)}
        js == {lower(s) : s \in Range(job_skills)}
        skill_overlap == Cardinality(rs \cap js)
        skill_union == Cardinality(rs \cup js)
        jaccard == FDiv(Float(skill_overlap), Float(Max(skill_union, 1)))
        score == FMul((7 * Scale) \div 10, sim) + FMul((3 * Scale) \div 10, jaccard)
        score_pct == FMul(Max(0, Min(Float(1), score)), Float(100))
        confidence == Scale \div 2 + FMul(Scale \div 2, Min(sim, Float(1)))
    IN  IF skill_union = 0 THEN [raised |-> "ZeroDivisionError"]
        ELSE [similarity |-> sim, jaccard |-> jaccard, score |-> score_pct,
              confidence |-> confidence, missing_skills |-> sorted(js \ rs),
              explanation |-> Explanation(sim, skill_overlap, skill_union, score_pct)]

compute_match_score(resume_vec, job_vec, resume_skills, job_skills) ==
    LET sim == cosine_similarity(resume_vec, job_vec)
        rs == {lower(s) : s \in Range(resume_skills)}
        js == {lower(s) : s \in Range(job_skills)}
        skill_overlap == Cardinality(rs \cap js)
        skill_union == IF Cardinality(rs \cup js) = 0 THEN 1 ELSE Cardinality(rs \cup js)
        jaccard == FDiv(Float(skill_overlap), Float(skill_union))
        score == FMul((7 * Scale) \div 10, sim) + FMul((3 * Scale) \div 10, jaccard)
        score_pct == FMul(Max(0, Min(Float(1), score)), Float(100))
        confidence == Scale \div 2 + FMul(Scale \div 2, Min(sim, Float(1)))
    IN  [similarity |-> sim, jaccard |-> jaccard, score |-> score_pct,
         confidence |-> confidence, missing_skills |-> sorted(js \ rs),
         explanation |-> Explanation(sim, skill_overlap, skill_union, score_pct)]

\* sims[:k]: a negative k counts from the end
SliceTo(s, k) ==
    IF k >= 0 THEN SubSeq(s, 1, Min(k, Len(s))) ELSE SubSeq(s, 1, Max(Len(s) + k, 0))

\* x put into the descending list s behind every entry that is not smaller
InsertDesc(s, x) ==
    LET before == {i \in DOMAIN s : s[i][2] >= x[2]}
        n == Cardinality(before)
    IN  SubSeq(s, 1, n) \o <<x>> \o SubSeq(s, n + 1, Len(s))

\* x put into the ascending list s behind every entry that is not larger
InsertAsc(s, x) ==
    LET before == {i \in DOMAIN s : s[i][2] <= x[2]}
        n == Cardinality(before)
    IN  SubSeq(s, 1, n) \o <<x>> \o SubSeq(s, n + 1, Len(s))

RECURSIVE SortDescTo(_, _)
\* sims.sort(key=lambda x: x[1], reverse=True) of s[1..n]: stable, descending
SortDescTo(s, n) == IF n = 0 THEN <<>> ELSE InsertDesc(SortDescTo(s, n - 1), s[n])

RECURSIVE SortAscTo(_, _)
SortAscTo(s, n) == IF n = 0 THEN <<>> ELSE InsertAsc(SortAscTo(s, n - 1), s[n])

\* a mutant of top_k_matches: the sort without reverse=True
top_k_matches_ascending(query_vec, corpus_texts, corpus_vecs, k) ==
    LET n == Min(Len(corpus_texts), Len(corpus_vecs))
        sims == [i \in 1..n |-> <<corpus_texts[i], cosine_similarity(query_vec, corpus_vecs[i])>>]
    IN  SliceTo(SortAscTo(sims, n), k)

\* a mutant of top_k_matches: the candidates are taken from the last to the
\* first, which puts candidates of equal similarity in the reverse of their
\* input order
top_k_matches_reversed_ties(query_vec, corpus_texts, corpus_vecs, k) ==
    LET n == Min(Len(corpus_texts), Len(corpus_vecs))
        sims == [i \in 1..n |-> <<corpus_texts[n + 1 - i],
                                  cosine_similarity(query_vec, corpus_vecs[n + 1 - i])>>]
    IN  SliceTo(SortDescTo(sims, n), k)

top_k_matches(query_vec, corpus_texts, corpus_vecs, k) ==
    LET n == Min(Len(corpus_texts), Len(corpus_vecs))      \* zip() of the two lists
        sims == [i \in 1..n |-> <<corpus_texts[i], cosine_similarity(query_vec, corpus_vecs[i])>>]
    IN  SliceTo(SortDescTo(sims, n), k)


-----------------------------------------------------------------------------
(* src/embeddings.py: texts, the local hashing embedding *)

None == "None"

\* Texts are sequences of characters over a small alphabet
Chars == {"A", " "}
Texts == UNION {[1..n -> Chars] : n \in 0..MaxTextLen}
TextLists == UNION {[1..n -> Texts] : n \in 0..MaxBatch}

IsSpace(c) == c = " "

\* str.lower() on the characters of the model
lowerChar(c) == IF c = "A" THEN "a" ELSE IF c = "B" THEN "b" ELSE c

text_lower(t) == [i \in DOMAIN t |-> lowerChar(t[i])]

\* str.strip(): the text without its leading and trailing white space
strip(t) ==
    LET solid == {i \in DOMAIN t : ~IsSpace(t[i])}
    IN  IF solid = {} THEN <<>>
        ELSE SubSeq(t, CHOOSE i \in solid : \A j \in solid : i <= j,
                       CHOOSE i \in solid : \A j \in solid : i >= j)

\* the characters [A-Za-z0-9_#+.-] of the token pattern
IsTokenChar(c) ==
    c \in {"a", "b", "A", "B", "0", "1", "_", "#", "+", ".", "-"}

RECURSIVE FindAllFrom(_, _, _)
\* re.findall(r"[A-Za-z0-9_#+.-]+", t) from position i on, cur the run being read
FindAllFrom(t, i, cur) ==
    IF i > Len(t) THEN (IF cur = <<>> THEN <<>> ELSE <<cur>>)
    ELSE IF IsTokenChar(t[i]) THEN FindAllFrom(t, i + 1, Append(cur, t[i]))
    ELSE (IF cur = <<>> THEN <<>> ELSE <<cur>>) \o FindAllFrom(t, i + 1, <<>>)

_tokenize(text) == FindAllFrom(text_lower(text), 1, <<>>)

CharCode(c) ==
    IF c = "a" THEN 97 ELSE IF c = "b" THEN 98 ELSE IF c = "0" THEN 48
    ELSE IF c = "1" THEN 49 ELSE 35

RECURSIVE DigestTo(_, _)
\* stands for the first four bytes of sha1(token): a fixed function of the
\* token's characters and of nothing else
DigestTo(token, n) ==
    IF n = 0 THEN 7 ELSE (DigestTo(token, n - 1) * 31 + CharCode(token[n])) % 65536

_hash_to_index(token, dimension) == DigestTo(token, Len(token)) % dimension

\* np.zeros(dimension) with vec[_hash_to_index(tok)] += 1.0 for every token
CountVector(tokens, dimension) ==
    [i \in 1..dimension |->
        Float(Cardinality({k \in DOMAIN tokens : _hash_to_index(tokens[k], dimension) = i - 1}))]

\* a mutant of Normalized: the mean of the components is taken away before the
\* vector is scaled
Normalized_centered(vec) ==
    LET mean == FDiv(SumTo(vec, Len(vec)), Float(Len(vec)))
        centered == [i \in DOMAIN vec |-> vec[i] - mean]
        nrm == FSqrt(SumTo([i \in DOMAIN vec |-> FMul(centered[i], centered[i])], Len(vec)))
    IN  IF nrm > 0 THEN [i \in DOMAIN vec |-> FDiv(centered[i], nrm)] ELSE vec

\* vec /= norm when norm > 0
Normalized(vec) ==
    LET nrm == FSqrt(SumTo([i \in DOMAIN vec |-> FMul(vec[i], vec[i])], Len(vec)))
    IN  IF nrm > 0 THEN [i \in DOMAIN vec |-> FDiv(vec[i], nrm)] ELSE vec

VecAdd(u, v) == [i \in DOMAIN u |-> u[i] + v[i]]

RECURSIVE SharedVecTo(_, _, _)
\* the vector of texts[n] when one vec is allocated before the loop and kept
SharedVecTo(dimension, texts, n) ==
    IF n = 0 THEN [i \in 1..dimension |-> 0]
    ELSE LET tokens == _tokenize(texts[n])
             before == SharedVecTo(dimension, texts, n - 1)
         IN  IF tokens = <<>> THEN before
             ELSE Normalized(VecAdd(before, CountVector(tokens, dimension)))

\* a mutant of embed_documents: vec is not created anew for every text
embed_documents_shared_vec(dimension, texts) ==
    [n \in DOMAIN texts |-> SharedVecTo(dimension, texts, n)]

\* a mutant of embed_documents: a text without tokens gets a unit vector
\* instead of the zero vector
embed_documents_never_zero(dimension, texts) ==
    [n \in DOMAIN texts |->
        LET tokens == _tokenize(texts[n])
            vec == CountVector(tokens, dimension)
        IN  IF tokens # <<>> THEN Normalized(vec)
            ELSE [i \in 1..dimension |-> IF i = 1 THEN Float(1) ELSE 0]]

\* _LocalHashingEmbeddings.embed_documents
embed_documents(dimension, texts) ==
    [n \in DOMAIN texts |->
        LET tokens == _tokenize(texts[n])
            vec == CountVector(tokens, dimension)
        IN  IF tokens # <<>> THEN Normalized(vec) ELSE vec]

-----------------------------------------------------------------------------
(* src/embeddings.py: the module and EmbeddingService *)

KeyValues == [GEMINI_API_KEY : {None, "", "gemini-key"},
              GOOGLE_API_KEY : {None, "google-key"},
              GEMINI_EMBED_MODEL : {None, "text-embedding-004", "models/gemini-embedding-001"}]

\* os.getenv(name, default)
getenv(env, name, default) == IF env[name] = None THEN default ELSE env[name]

\* bool(x) of an optional string
Truthy(x) == x # None /\ x # ""

\* x or y
Or(x, y) == IF Truthy(x) THEN x ELSE y

\* the module before and after its import
Unloaded == [loaded |-> FALSE]
Module(importable, env) ==
    [loaded |-> TRUE,
     GoogleGenerativeAIEmbeddings |-> IF importable THEN "class" ELSE None,
     DEFAULT_GEMINI_EMBED_MODEL |-> getenv(env, "GEMINI_EMBED_MODEL", "text-embedding-004")]

\* model_name with the "models/" prefix when it has none
WithModelsPrefix(name) ==
    IF name = "text-embedding-004" THEN "models/text-embedding-004" ELSE name

\* self._backend = None
NoBackend == [kind |-> "none"]
\* no instance
NoService == [_backend |-> NoBackend]
\* nothing remembered
NoMemory == [svc |-> 0, text |-> <<>>, vector |-> <<>>]

_LocalHashingEmbeddings(dimension) == [kind |-> "local", _dimension |-> dimension]
RemoteBackend(model, key) == [kind |-> "remote", model |-> model, google_api_key |-> key]

\* whether __init__ reaches the call of GoogleGenerativeAIEmbeddings(...)
CallsRemoteConstructor(env, mod) ==
    /\ Truthy(Or(getenv(env, "GEMINI_API_KEY", None), getenv(env, "GOOGLE_API_KEY", None)))
    /\ mod.GoogleGenerativeAIEmbeddings # None

\* a mutant of EmbeddingService.__init__: the constructor call is not guarded
EmbeddingService_init_unguarded(env, mod, ctor) ==
    LET api_key == Or(getenv(env, "GEMINI_API_KEY", None), getenv(env, "GOOGLE_API_KEY", None))
        model_name == WithModelsPrefix(mod.DEFAULT_GEMINI_EMBED_MODEL)
    IN  IF CallsRemoteConstructor(env, mod)
        THEN IF ctor = "ok" THEN Return([_backend |-> RemoteBackend(model_name, api_key)])
             ELSE Raise(ctor)
        ELSE Return([_backend |-> _LocalHashingEmbeddings(Dimension)])

\* EmbeddingService.__init__; ctor is what GoogleGenerativeAIEmbeddings(...) does
\* when it is called: "ok" or the exception it throws
EmbeddingService_init(env, mod, ctor) ==
    LET api_key == Or(getenv(env, "GEMINI_API_KEY", None), getenv(env, "GOOGLE_API_KEY", None))
        model_name == WithModelsPrefix(mod.DEFAULT_GEMINI_EMBED_MODEL)
        remote == IF Truthy(api_key) /\ mod.GoogleGenerativeAIEmbeddings # None
                  THEN IF ctor = "ok" THEN RemoteBackend(model_name, api_key)
                       ELSE NoBackend                      \* except Exception
                  ELSE NoBackend
    IN  Return([_backend |-> IF remote = NoBackend THEN _LocalHashingEmbeddings(Dimension)
                                                   ELSE remote])

\* EmbeddingService.dimension
EmbeddingService_dimension(service) == Dimension

\* the size of the vectors the remote model returns: that of the default
\* model is the local one (768), that of gemini-embedding-001 four times it
RemoteDimension(model) ==
    IF model = "models/text-embedding-004" THEN Dimension ELSE 4 * Dimension

\* stands for the vector the remote service returns for a text
RemoteVector(model, text) ==
    [i \in 1..RemoteDimension(model) |->
        IF i = 1 + (Len(text) % RemoteDimension(model)) THEN Float(1) ELSE 0]

\* self._backend.embed_documents(clean_texts); remote is what the remote call
\* does: "ok" or the exception it throws
BackendEmbedDocuments(backend, texts, remote) ==
    IF backend.kind = "local" THEN Return(embed_documents(backend._dimension, texts))
    ELSE IF remote = "ok"
         THEN Return([n \in DOMAIN texts |-> RemoteVector(backend.model, texts[n])])
         ELSE Raise(remote)

\* EmbeddingService.embed_texts (both backends have embed_documents)
embed_texts(service, texts, remote) ==
    LET clean_texts == [n \in DOMAIN texts |-> strip(texts[n])]
    IN  BackendEmbedDocuments(service._backend, clean_texts, remote)

\* EmbeddingService.embed_query
embed_query(service, text, remote) ==
    LET r == embed_texts(service, <<text>>, remote)
    IN  IF r.kind = "return" THEN Return(r.value[1]) ELSE r

ServiceIds == {1, 2}
Outcomes == {"ok", "Exception"}

-----------------------------------------------------------------------------
(* An analysis run of main(): its record *)

RunIds == {1, 2}

NoError == [stage |-> "none", kind |-> "none"]
NoTrace == [built |-> FALSE, steps |-> <<>>, edges |-> <<>>]

\* no file in the uploader
NoFile == [uploaded |-> FALSE, parseable |-> FALSE, pages |-> <<>>]

\* the page before the button is pressed
NotStarted(file, job) ==
    [pc |-> "idle", resume_file |-> file, job_desc |-> job, embed |-> NoService,
     steps |-> <<>>, executed |-> <<>>, trace |-> NoTrace, shown |-> <<>>,
     error |-> NoError]

RunsIdle == runs = [r \in RunIds |-> NotStarted(NoFile, <<>>)]

-----------------------------------------------------------------------------
(* s.py, latest.py: the state of a resume-builder session *)

\* the three lists of the form: experience_items, education_items, project_items
Sections == {"experience", "education", "project"}

\* what a row shows: the values of its text widgets, empty or as typed
RowContents == {"", "A", "B"}

\* the Full Name field
FullNames == {"", " ", "A B"}

\* st.session_state after the first script run of the page: every list is
\* [{}] and its one row shows the empty default of its widgets.  widgets[s][i]
\* is the state of the widgets of the keys with index i - 1 of list s.
FirstRender ==
    [items |-> [s \in Sections |-> <<"{}">>],
     widgets |-> [s \in Sections |-> <<"">>],
     name |-> ""]

\* the page after a script run that no button started
Rendered(section, op, row) ==
    [section |-> section, event |-> [op |-> op, row |-> row],
     shown |-> <<>>, generated |-> <<>>, raised |-> "none"]

BuilderIdle ==
    /\ session_state = FirstRender
    /\ page = Rendered("none", "none", 0)


IsLocal(service) == service._backend.kind = "local"

\* import of src/embeddings.py
LoadModule ==
    /\ ~module.loaded
    /\ \E importable \in BOOLEAN : module' = Module(importable, environ)
    /\ UNCHANGED <<fn, args, ret, environ, services, earlier, runs, builderVars>>

\* EmbeddingService()
Construct ==
    /\ module.loaded
    /\ \E id \in ServiceIds, ctor \in Outcomes :
        /\ services[id] = NoService
        /\ \A j \in ServiceIds : j < id => services[j] # NoService
        /\ (~CallsRemoteConstructor(environ, module)) => ctor = "ok"
        /\ LET r == EmbeddingService_init(environ, module, ctor)
           IN  /\ fn' = "EmbeddingService"
               /\ args' = [svc |-> id,
                           ctor |-> IF CallsRemoteConstructor(environ, module)
                                    THEN ctor ELSE "not called"]
               /\ ret' = IF r.kind = "return" THEN Return(id) ELSE r
               /\ services' = IF r.kind = "return"
                              THEN [services EXCEPT ![id] = r.value] ELSE services
    /\ UNCHANGED <<environ, module, earlier, runs, builderVars>>

\* the caller holds the outcome of an embedding call it has not yet looked at
Pending == fn \in {"embed_texts", "embed_query"}

\* a mutant of EmbedTexts: a service whose remote backend failed falls back to
\* the local backend
EmbedTexts_fallback ==
    \E id \in ServiceIds, texts \in TextLists, remote \in Outcomes :
        /\ ~Pending
        /\ services[id] # NoService
        /\ IsLocal(services[id]) => remote = "ok"
        /\ fn' = "embed_texts"
        /\ args' = [svc |-> id, texts |-> texts]
        /\ ret' = embed_texts(services[id], texts, remote)
        /\ services' = IF remote = "ok" THEN services
                       ELSE [services EXCEPT ![id] = [_backend |-> _LocalHashingEmbeddings(Dimension)]]
        /\ UNCHANGED <<environ, module, earlier, runs, builderVars>>

\* service.embed_texts(texts)
EmbedTexts ==
    \E id \in ServiceIds, texts \in TextLists, remote \in Outcomes :
        /\ ~Pending
        /\ services[id] # NoService
        /\ IsLocal(services[id]) => remote = "ok"
        /\ fn' = "embed_texts"
        /\ args' = [svc |-> id, texts |-> texts]
        /\ ret' = embed_texts(services[id], texts, remote)
        /\ UNCHANGED <<embedVars, runs, builderVars>>

\* service.embed_query(text)
EmbedQuery ==
    \E id \in ServiceIds, text \in Texts, remote \in Outcomes :
        /\ ~Pending
        /\ services[id] # NoService
        /\ IsLocal(services[id]) => remote = "ok"
        /\ fn' = "embed_query"
        /\ args' = [svc |-> id, texts |-> <<text>>]
        /\ ret' = LET r == embed_query(services[id], text, remote)
                  IN  IF r.kind = "return" THEN Return(<<r.value>>) ELSE r
        /\ UNCHANGED <<embedVars, runs, builderVars>>

\* the caller looks at the outcome of the last embedding call and goes on; it
\* keeps what it remembered, or remembers one embedding a local backend returned
Remember ==
    /\ Pending
    /\ \/ earlier' = earlier
       \/ /\ ret.kind = "return"
          /\ IsLocal(services[args.svc])
          /\ \E n \in DOMAIN args.texts :
                earlier' = [svc |-> args.svc, text |-> args.texts[n],
                            vector |-> ret.value[n]]
    /\ fn' = "none" /\ args' = <<>> /\ ret' = NoRet
    /\ UNCHANGED <<environ, module, services, runs, builderVars>>

EmbedIdle ==
    /\ environ = [GEMINI_API_KEY |-> None, GOOGLE_API_KEY |-> None, GEMINI_EMBED_MODEL |-> None]
    /\ module = Unloaded
    /\ services = [id \in ServiceIds |-> NoService]
    /\ earlier = NoMemory

(* Construction: any environment, the module not yet imported *)
InitService ==
    /\ fn = "none" /\ args = <<>> /\ ret = NoRet
    /\ environ \in KeyValues
    /\ module = Unloaded
    /\ services = [id \in ServiceIds |-> NoService]
    /\ earlier = NoMemory
    /\ RunsIdle
    /\ BuilderIdle

NextService == LoadModule \/ Construct

SpecService == InitService /\ [][NextService]_vars

(* Configuration: the program imports src/embeddings.py and only then loads  *)
(* its .env file, and it embeds with the services it has constructed          *)

\* load_dotenv(override=False): every variable of the file that the
\* environment does not have is set; a variable the file does not have is None
load_dotenv(env, file) ==
    [name \in DOMAIN env |-> IF env[name] = None THEN file[name] ELSE env[name]]

\* the .env files: a file gives GEMINI_API_KEY and GEMINI_EMBED_MODEL, or
\* one of them, or nothing
DotenvFiles == {file \in KeyValues : file.GOOGLE_API_KEY = None}

LoadDotenv ==
    /\ module.loaded
    /\ ~Pending
    /\ \E file \in DotenvFiles : environ' = load_dotenv(environ, file)
    /\ environ' # environ
    /\ UNCHANGED <<fn, args, ret, module, services, earlier, runs, builderVars>>

NextConfig ==
    LoadModule \/ LoadDotenv \/ Construct \/ EmbedTexts \/ EmbedQuery
        \/ (Remember /\ earlier' = earlier)

InitConfig ==
    /\ InitService
    /\ environ.GOOGLE_API_KEY = None

SpecConfig == InitConfig /\ [][NextConfig]_vars

(* Embedding: the module imported, with no credential, or with one and the    *)
(* default or another model                                                  *)
EmbedEnvirons ==
    {e \in KeyValues : e.GOOGLE_API_KEY = None /\ e.GEMINI_API_KEY # ""
                       /\ (e.GEMINI_API_KEY = None => e.GEMINI_EMBED_MODEL = None)
                       /\ e.GEMINI_EMBED_MODEL # "text-embedding-004"}

InitEmbed ==
    /\ fn = "none" /\ args = <<>> /\ ret = NoRet
    /\ environ \in EmbedEnvirons
    /\ module = Module(TRUE, environ)
    /\ services = [id \in ServiceIds |-> NoService]
    /\ earlier = NoMemory
    /\ RunsIdle
    /\ BuilderIdle

NextEmbed == Construct \/ EmbedTexts \/ EmbedQuery \/ Remember

SpecEmbed == InitEmbed /\ [][NextEmbed]_vars

-----------------------------------------------------------------------------
(* src/parsing.py: text extraction *)

\* what page.extract_text() does on a page: a text, None, or an exception
PageResults == {[kind |-> "text", text |-> <<"A">>], [kind |-> "none"], [kind |-> "raise"]}

\* the uploaded files: bytes that are no PDF, and documents of some pages
PdfFiles ==
    {[uploaded |-> TRUE, parseable |-> FALSE, pages |-> <<>>]} \cup
    {[uploaded |-> TRUE, parseable |-> TRUE, pages |-> p] :
        p \in UNION {[1..n -> PageResults] : n \in 0..MaxPages}}

RECURSIVE JoinTo(_, _)
\* "\n".join(parts[1..n])
JoinTo(parts, n) ==
    IF n = 0 THEN <<>>
    ELSE IF n = 1 THEN parts[1]
    ELSE JoinTo(parts, n - 1) \o <<"\n">> \o parts[n]

\* extract_text_from_pdf: pdfplumber.open raises its own PDFSyntaxError on
\* bytes that are no PDF; an exception of page.extract_text() is not caught
extract_text_from_pdf(pdf) ==
    IF ~pdf.parseable THEN Raise("PDFSyntaxError")
    ELSE IF \E i \in DOMAIN pdf.pages : pdf.pages[i].kind = "raise" THEN Raise("PageError")
    ELSE Return(JoinTo([i \in DOMAIN pdf.pages |->
                          IF pdf.pages[i].kind = "text" THEN pdf.pages[i].text ELSE <<>>],
                       Len(pdf.pages)))

\* parse_resume_pdf: the raw text of the document (the extracted facts are
\* functions of it)
parse_resume_pdf(pdf) ==
    LET raw == extract_text_from_pdf(pdf)
    IN  IF raw.kind = "raise" THEN raw ELSE Return([raw_text |-> raw.value])

-----------------------------------------------------------------------------
(* src/parsing.py: fact extraction *)

\* None where a string is expected: a value that is no text
NoneText == <<None>>

\* the characters of the model, in code point order
CodePoints ==
    <<"\n", " ", "#", "%", "+", "-", ".", "/",
      "0", "1", "2", "3", "4", "5", "6", "7", "8", "9",
      "@", "A", "B", "_",
      "a", "b", "c", "d", "e", "f", "g", "h", "i", "j", "k", "l", "m",
      "n", "o", "p", "q", "r", "s", "t", "u", "v", "w", "x", "y", "z">>
Ord(c) == CHOOSE i \in DOMAIN CodePoints : CodePoints[i] = c

IsDigit(c) == c \in {"0", "1", "2", "3", "4", "5", "6", "7", "8", "9"}      \* \d
\* [A-Za-z]: the letters of the model
Letters ==
    {"A", "B", "a", "b", "c", "d", "e", "f", "g", "h", "i", "j", "k", "l", "m"} \cup
    {"n", "o", "p", "q", "r", "s", "t", "u", "v", "w", "x", "y", "z"}
IsLetter(c) == c \in Letters
IsWhite(c) == c \in {" ", "\n"}      \* \s

\* a < b for two strings
TextLess(a, b) ==
    \E k \in 1..(Min(Len(a), Len(b)) + 1) :
        /\ \A j \in 1..(k - 1) : a[j] = b[j]
        /\ \/ k > Len(a) /\ k <= Len(b)
           \/ k <= Len(a) /\ k <= Len(b) /\ Ord(a[k]) < Ord(b[k])

RECURSIVE sorted_texts(_)
\* sorted(S) of a set S of strings: ascending
sorted_texts(S) ==
    IF S = {} THEN <<>>
    ELSE LET m == CHOOSE x \in S : \A y \in S \ {x} : TextLess(x, y)
         IN  <<m>> \o sorted_texts(S \ {m})

RECURSIVE RunsFrom(_, _, _, _)
\* re.findall(r"[class]+", t) from position i on, cur the run being read
RunsFrom(class, t, i, cur) ==
    IF i > Len(t) THEN (IF cur = <<>> THEN <<>> ELSE <<cur>>)
    ELSE IF t[i] \in class THEN RunsFrom(class, t, i + 1, Append(cur, t[i]))
    ELSE (IF cur = <<>> THEN <<>> ELSE <<cur>>) \o RunsFrom(class, t, i + 1, <<>>)

BASIC_SKILLS ==
    {
     \* programming
     <<"p", "y", "t", "h", "o", "n">>,
     <<"j", "a", "v", "a">>,
     <<"j", "a", "v", "a", "s", "c", "r", "i", "p", "t">>,
     <<"t", "y", "p", "e", "s", "c", "r", "i", "p", "t">>,
     <<"c", "+", "+">>,
     <<"c", "#">>,
     <<"g", "o">>,
     <<"r", "u", "s", "t">>,
     <<"s", "q", "l">>,
     \* data
     <<"p", "a", "n", "d", "a", "s">>,
     <<"n", "u", "m", "p", "y">>,
     <<"s", "c", "i", "k", "i", "t", "-", "l", "e", "a", "r", "n">>,
     <<"t", "e", "n", "s", "o", "r", "f", "l", "o", "w">>,
     <<"p", "y", "t", "o", "r", "c", "h">>,
     <<"n", "l", "p">>,
     <<"s", "p", "a", "c", "y">>,
     <<"n", "l", "t", "k">>,
     \* cloud/devops
     <<"a", "w", "s">>,
     <<"a", "z", "u", "r", "e">>,
     <<"g", "c", "p">>,
     <<"d", "o", "c", "k", "e", "r">>,
     <<"k", "u", "b", "e", "r", "n", "e", "t", "e", "s">>,
     <<"c", "i", "/", "c", "d">>,
     <<"g", "i", "t">>,
     \* web
     <<"r", "e", "a", "c", "t">>,
     <<"n", "o", "d", "e">>,
     <<"s", "t", "r", "e", "a", "m", "l", "i", "t">>,
     <<"f", "l", "a", "s", "k">>,
     <<"d", "j", "a", "n", "g", "o">>
    }

\* [A-Za-z0-9._%+-] and [A-Za-z0-9.-] of the e-mail pattern
IsEmailLocal(c) == IsLetter(c) \/ IsDigit(c) \/ c \in {".", "_", "%", "+", "-"}
IsEmailDomain(c) == IsLetter(c) \/ IsDigit(c) \/ c \in {".", "-"}

\* where the match of the e-mail pattern that starts at i ends, 0 if there is
\* none: the local part runs up to the "@", the domain is cut at its last
\* "." that two letters follow, and the letters after it are taken
EmailEndAt(t, i) ==
    IF ~IsEmailLocal(t[i]) THEN 0
    ELSE LET stops == {p \in (i + 1)..Len(t) : ~IsEmailLocal(t[p])}
         IN  IF stops = {} THEN 0
             ELSE LET at == CHOOSE p \in stops : \A q \in stops : p <= q
                      dots == {q \in (at + 2)..(Len(t) - 2) :
                                  /\ t[q] = "."
                                  /\ \A k \in (at + 1)..(q - 1) : IsEmailDomain(t[k])
                                  /\ IsLetter(t[q + 1]) /\ IsLetter(t[q + 2])}
                  IN  IF t[at] # "@" \/ dots = {} THEN 0
                      ELSE LET dot_at == CHOOSE q \in dots : \A r \in dots : q >= r
                               others == {k \in (dot_at + 1)..Len(t) : ~IsLetter(t[k])}
                           IN  IF others = {} THEN Len(t)
                               ELSE (CHOOSE k \in others : \A r \in others : k <= r) - 1

\* extract_email: re.search, the leftmost match
extract_email(text) ==
    LET starts == {i \in DOMAIN text : EmailEndAt(text, i) > 0}
    IN  IF starts = {} THEN NoneText
        ELSE LET i == CHOOSE x \in starts : \A y \in starts : x <= y
             IN  SubSeq(text, i, EmailEndAt(text, i))

\* [\d\-\s] of the phone pattern
IsPhoneBody(c) == IsDigit(c) \/ c = "-" \/ IsWhite(c)

\* where the match of \d[\d\-\s]{7,}\d with its first digit at p ends, 0 if
\* there is none: the last digit that at least 7 characters of the class
\* separate from the first
PhoneEndAt(t, p) ==
    IF p > Len(t) \/ ~IsDigit(t[p]) THEN 0
    ELSE LET ends == {e \in (p + 8)..Len(t) :
                        IsDigit(t[e]) /\ \A k \in (p + 1)..(e - 1) : IsPhoneBody(t[k])}
         IN  IF ends = {} THEN 0 ELSE CHOOSE e \in ends : \A r \in ends : e >= r

\* (\+?\d[\d\-\s]{7,}\d) tried at position i
PhoneMatchEnd(t, i) == IF t[i] = "+" THEN PhoneEndAt(t, i + 1) ELSE PhoneEndAt(t, i)

\* extract_phone: re.search, the leftmost match
extract_phone(text) ==
    LET starts == {i \in DOMAIN text : PhoneMatchEnd(text, i) > 0}
    IN  IF starts = {} THEN NoneText
        ELSE LET i == CHOOSE x \in starts : \A y \in starts : x <= y
             IN  SubSeq(text, i, PhoneMatchEnd(text, i))

RECURSIVE SplitLinesFrom(_, _, _)
\* str.splitlines() from position i on, cur the line being read: a line ends
\* at every "\n", and what follows the last "\n" is a line unless empty
SplitLinesFrom(t, i, cur) ==
    IF i > Len(t) THEN (IF cur = <<>> THEN <<>> ELSE <<cur>>)
    ELSE IF t[i] = "\n" THEN <<cur>> \o SplitLinesFrom(t, i + 1, <<>>)
    ELSE SplitLinesFrom(t, i + 1, Append(cur, t[i]))

splitlines(t) == SplitLinesFrom(t, 1, <<>>)

\* len(line.split()): the words of a line
WordCount(line) ==
    Cardinality({i \in DOMAIN line :
                    ~IsWhite(line[i]) /\ (i = 1 \/ IsWhite(line[i - 1]))})

extract_name(text) ==
    LET lines == splitlines(text)
        first_line == strip(IF lines = <<>> THEN <<>> ELSE lines[1])
    IN  IF 2 <= WordCount(first_line) /\ WordCount(first_line) <= 5 /\ Len(first_line) <= 64
        THEN first_line
        ELSE NoneText

\* [A-Za-z#+.\-] of the skills pattern
SkillTokenChars == Letters \cup {"#", "+", ".", "-"}

extract_skills(text) ==
    LET tokens == Range(RunsFrom(SkillTokenChars, text_lower(text), 1, <<>>))
    IN  sorted_texts({s \in BASIC_SKILLS : s \in tokens})

-----------------------------------------------------------------------------
(* src/agents.py is not among the sources: the four agents are modelled from  *)
(* section 4.6 of the specification.  Each returns a named stage result or   *)
(* lets an exception out; fault is what the agent's own work does.            *)

StageNames == <<"ParseResume", "ParseJob", "EnhanceContent", "MatchAndScore">>

AgentResult(name, inputs, outputs) == [name |-> name, inputs |-> inputs, outputs |-> outputs]

resume_parser_agent(resume_bytes) ==
    LET r == parse_resume_pdf(resume_bytes)
    IN  IF r.kind = "raise" THEN r
        ELSE Return(AgentResult(StageNames[1], [pages |-> Len(resume_bytes.pages)], r.value))

job_parser_agent(job_desc, fault) ==
    IF fault # "ok" THEN Raise(fault)
    ELSE Return(AgentResult(StageNames[2], [job_text |-> job_desc], [job_text |-> job_desc]))

content_enhancer_agent(raw_text, fault) ==
    IF fault # "ok" THEN Raise(fault)
    ELSE Return(AgentResult(StageNames[3], [raw_text |-> raw_text], [enhanced |-> raw_text]))

matcher_and_scoring_agent(resume_text, job_text, embedding_service, fault) ==
    IF fault # "ok" THEN Raise(fault)
    ELSE Return(AgentResult(StageNames[4],
                            [resume_text |-> resume_text, job_text |-> job_text],
                            [backend |-> embedding_service._backend.kind]))

-----------------------------------------------------------------------------
(* src/workflow.py *)

\* names = [s.name for s in steps]
Names(steps) == [i \in DOMAIN steps |-> steps[i].name]

\* a mutant of build_workflow_trace: range(len(names) - 2)
build_workflow_trace_short(steps) ==
    LET names == Names(steps)
    IN  [built |-> TRUE, steps |-> steps,
         edges |-> [i \in 1..(Len(names) - 2) |-> <<names[i], names[i + 1]>>]]

build_workflow_trace(steps) ==
    LET names == Names(steps)
    IN  [built |-> TRUE, steps |-> steps,
         edges |-> [i \in 1..(Len(names) - 1) |-> <<names[i], names[i + 1]>>]]

-----------------------------------------------------------------------------
(* s.py, latest.py: the analysis run of main() *)

\* a mutant of AfterStage: the exception of a stage is caught and the run goes on
AfterStage_swallow(run, stage, r, next) ==
    IF r.kind = "return"
    THEN [run EXCEPT !.steps = Append(@, r.value), !.executed = Append(@, stage),
                     !.pc = next]
    ELSE [run EXCEPT !.executed = Append(@, stage), !.pc = next,
                     !.error = [stage |-> stage, kind |-> r.error]]

\* a = <stage>(...); steps.append(a): an exception of the stage leaves main()
AfterStage(run, stage, r, next) ==
    IF r.kind = "return"
    THEN [run EXCEPT !.steps = Append(@, r.value), !.executed = Append(@, stage),
                     !.pc = next]
    ELSE [run EXCEPT !.executed = Append(@, stage), !.pc = "aborted",
                     !.error = [stage |-> stage, kind |-> r.error]]

\* a mutant of StartRun: steps is one list of the module, which every run that
\* starts empties
StartRun_global_steps(r) ==
    /\ runs[r].pc = "idle"
    /\ runs[r].resume_file.uploaded
    /\ runs[r].job_desc # <<>>
    /\ module.loaded
    /\ \E ctor \in Outcomes :
        /\ (~CallsRemoteConstructor(environ, module)) => ctor = "ok"
        /\ LET e == EmbeddingService_init(environ, module, ctor)
           IN  runs' = [x \in RunIds |->
                   IF x # r THEN [runs[x] EXCEPT !.steps = <<>>]
                   ELSE IF e.kind = "return"
                   THEN [runs[x] EXCEPT !.embed = e.value, !.steps = <<>>, !.pc = "ParseResume"]
                   ELSE [runs[x] EXCEPT !.pc = "aborted",
                                        !.error = [stage |-> "EmbeddingService", kind |-> e.error]]]
    /\ UNCHANGED <<harnessVars, embedVars, builderVars>>

\* if run and resume_file and job_desc: embed = EmbeddingService(); steps = []
StartRun(r) ==
    /\ runs[r].pc = "idle"
    /\ runs[r].resume_file.uploaded
    /\ runs[r].job_desc # <<>>
    /\ module.loaded
    /\ \E ctor \in Outcomes :
        /\ (~CallsRemoteConstructor(environ, module)) => ctor = "ok"
        /\ LET e == EmbeddingService_init(environ, module, ctor)
           IN  runs' = [runs EXCEPT ![r] =
                   IF e.kind = "return"
                   THEN [@ EXCEPT !.embed = e.value, !.steps = <<>>, !.pc = "ParseResume"]
                   ELSE [@ EXCEPT !.pc = "aborted",
                                  !.error = [stage |-> "EmbeddingService", kind |-> e.error]]]
    /\ UNCHANGED <<harnessVars, embedVars, builderVars>>

\* a1 = resume_parser_agent(resume_bytes); steps.append(a1)
ParseResume(r) ==
    /\ runs[r].pc = "ParseResume"
    /\ runs' = [runs EXCEPT ![r] =
            AfterStage(@, "ParseResume", resume_parser_agent(@.resume_file), "ParseJob")]
    /\ UNCHANGED <<harnessVars, embedVars, builderVars>>

\* a2 = job_parser_agent(job_desc); steps.append(a2)
ParseJob(r) ==
    /\ runs[r].pc = "ParseJob"
    /\ \E fault \in Outcomes :
        runs' = [runs EXCEPT ![r] =
            AfterStage(@, "ParseJob", job_parser_agent(@.job_desc, fault), "EnhanceContent")]
    /\ UNCHANGED <<harnessVars, embedVars, builderVars>>

\* a3 = content_enhancer_agent(a1.outputs["raw_text"]); steps.append(a3)
EnhanceContent(r) ==
    /\ runs[r].pc = "EnhanceContent"
    /\ \E fault \in Outcomes :
        runs' = [runs EXCEPT ![r] =
            AfterStage(@, "EnhanceContent",
                       content_enhancer_agent(@.steps[1].outputs.raw_text, fault),
                       "MatchAndScore")]
    /\ UNCHANGED <<harnessVars, embedVars, builderVars>>

\* a4 = matcher_and_scoring_agent(...); steps.append(a4)
MatchAndScore(r) ==
    /\ runs[r].pc = "MatchAndScore"
    /\ \E fault \in Outcomes :
        runs' = [runs EXCEPT ![r] =
            AfterStage(@, "MatchAndScore",
                       matcher_and_scoring_agent(@.steps[1].outputs.raw_text, @.job_desc,
                                                 @.embed, fault),
                       "BuildTrace")]
    /\ UNCHANGED <<harnessVars, embedVars, builderVars>>

\* trace = build_workflow_trace(steps); fig = workflow_figure(trace): an
\* exception of the figure library leaves main() and the trace with it
BuildTrace(r) ==
    /\ runs[r].pc = "BuildTrace"
    /\ \E fault \in Outcomes :
        LET trace == build_workflow_trace(runs[r].steps)
        IN  runs' = [runs EXCEPT ![r] =
                IF fault = "ok"
                THEN [@ EXCEPT !.trace = trace, !.executed = Append(@, "BuildTrace"),
                               !.pc = "show"]
                ELSE [@ EXCEPT !.executed = Append(@, "BuildTrace"), !.pc = "aborted",
                               !.error = [stage |-> "BuildTrace", kind |-> fault]]]
    /\ UNCHANGED <<harnessVars, embedVars, builderVars>>

\* show_workflow_diagram(fig); show_match_summary(...); show_agent_outputs(...)
ShowResults(r) ==
    /\ runs[r].pc = "show"
    /\ runs' = [runs EXCEPT ![r] =
            [@ EXCEPT !.shown = <<"workflow_diagram", "match_summary", "agent_outputs">>,
                      !.pc = "report"]]
    /\ UNCHANGED <<harnessVars, embedVars, builderVars>>

\* pdf_bytes = generate_pdf_report(...); st.download_button(...)
DownloadReport(r) ==
    /\ runs[r].pc = "report"
    /\ \E fault \in Outcomes :
        runs' = [runs EXCEPT ![r] =
            IF fault = "ok"
            THEN [@ EXCEPT !.shown = Append(@, "report_download"), !.pc = "done"]
            ELSE [@ EXCEPT !.pc = "aborted", !.error = [stage |-> "Report", kind |-> fault]]]
    /\ UNCHANGED <<harnessVars, embedVars, builderVars>>

(* One run: any file or none in the uploader, any job text *)
InitRun ==
    /\ fn = "none" /\ args = <<>> /\ ret = NoRet
    /\ environ \in EmbedEnvirons
    /\ module = Module(TRUE, environ)
    /\ services = [id \in ServiceIds |-> NoService]
    /\ earlier = NoMemory
    /\ BuilderIdle
    /\ \E file \in PdfFiles \cup {NoFile}, job \in Texts :
        runs = [r \in RunIds |-> IF r = 1 THEN NotStarted(file, job)
                                          ELSE NotStarted(NoFile, <<>>)]

NextRun ==
    \/ StartRun(1)
    \/ ParseResume(1)
    \/ ParseJob(1)
    \/ EnhanceContent(1)
    \/ MatchAndScore(1)
    \/ BuildTrace(1)
    \/ ShowResults(1)
    \/ DownloadReport(1)

SpecRun == InitRun /\ [][NextRun]_vars

(* Two runs at once, each of its own session with its own file of at most   *)
(* one page and its own job text of one character, their steps interleaved   *)
(* in any order                                                              *)
RunFiles == {file \in PdfFiles : Len(file.pages) <= 1}
RunJobs == {job \in Texts : Len(job) = 1}

InitRuns ==
    /\ fn = "none" /\ args = <<>> /\ ret = NoRet
    /\ environ \in EmbedEnvirons
    /\ module = Module(TRUE, environ)
    /\ services = [id \in ServiceIds |-> NoService]
    /\ earlier = NoMemory
    /\ BuilderIdle
    /\ \E files \in [RunIds -> RunFiles], jobs \in [RunIds -> RunJobs] :
        runs = [r \in RunIds |-> NotStarted(files[r], jobs[r])]

NextRuns ==
    \E r \in RunIds :
        \/ StartRun(r)
        \/ ParseResume(r)
        \/ ParseJob(r)
        \/ EnhanceContent(r)
        \/ MatchAndScore(r)
        \/ BuildTrace(r)
        \/ ShowResults(r)
        \/ DownloadReport(r)

SpecRuns == InitRuns /\ [][NextRuns]_vars

-----------------------------------------------------------------------------
(* s.py, latest.py: the resume builder.  Every event of the user starts a    *)
(* script run that renders the form from st.session_state.                   *)

\* list.pop(i - 1)
Pop(list, i) == [j \in 1..(Len(list) - 1) |-> IF j < i THEN list[j] ELSE list[j + 1]]

\* the rows dynamic_*_input returns: the rows that show something
Entered(section) == SelectSeq(session_state.widgets[section], LAMBDA c : c # "")

\* data of the resume builder
Data ==
    [name |-> session_state.name,
     experience |-> Entered("experience"), education |-> Entered("education"),
     projects |-> Entered("project")]

\* name.replace(" ", "_").lower() + "_professional_resume.pdf"
DlName(name) ==
    IF name = " " THEN "__professional_resume.pdf"
    ELSE IF name = "A B" THEN "a_b_professional_resume.pdf"
    ELSE "_professional_resume.pdf"

\* the user types into the widgets of row i: the widgets keep the text under
\* their keys, the list in st.session_state is not written
EditRow ==
    \E i \in DOMAIN session_state.widgets[page.section], c \in RowContents :
        /\ c # session_state.widgets[page.section][i]
        /\ session_state' = [session_state EXCEPT !.widgets[page.section][i] = c]
        /\ page' = Rendered(page.section, "edit", i)
        /\ UNCHANGED <<harnessVars, embedVars, runs>>

\* the user types into Full Name
EditName ==
    \E name \in FullNames :
        /\ name # session_state.name
        /\ session_state' = [session_state EXCEPT !.name = name]
        /\ page' = Rendered(page.section, "name", 0)
        /\ UNCHANGED <<harnessVars, embedVars, runs>>

\* Add Another ...: items.append({}); st.rerun(): the new row has the next
\* index, and its widgets show the defaults of {}
AddRow ==
    /\ Len(session_state.items[page.section]) < MaxRows
    /\ session_state' = [session_state EXCEPT
            !.items[page.section] = Append(@, "{}"),
            !.widgets[page.section] = Append(@, "")]
    /\ page' = Rendered(page.section, "add", 0)
    /\ UNCHANGED <<harnessVars, embedVars, runs>>

\* Remove ... i: items.pop(i - 1); st.rerun(): the rerun renders one row less,
\* every row with the widgets of the keys of its index, which show the state
\* kept under these keys; the widgets of the last index are not rendered and
\* their state is dropped
RemoveRow ==
    \E i \in DOMAIN session_state.items[page.section] :
        LET items == Pop(session_state.items[page.section], i)
        IN  /\ session_state' = [session_state EXCEPT
                    !.items[page.section] = items,
                    !.widgets[page.section] = SubSeq(@, 1, Len(items))]
            /\ page' = Rendered(page.section, "remove", i)
            /\ UNCHANGED <<harnessVars, embedVars, runs>>

\* spec-modelled: generate_ats_resume_pdf (src/reporting.py) returns the bytes
\* of a PDF or raises
generate_ats_resume_pdf(data, fault) ==
    IF fault # "ok" THEN Raise(fault) ELSE Return([pdf_of |-> data])

\* a mutant of Generate: the generator is called without the check of the name
Generate_unchecked ==
    \E fault \in Outcomes :
        LET resume_pdf == generate_ats_resume_pdf(Data, fault)
        IN  /\ page' = IF resume_pdf.kind = "return"
                       THEN [Rendered(page.section, "generate", 0) EXCEPT
                                !.generated = <<Data>>,
                                !.shown = <<"success", DlName(Data.name), "info">>]
                       ELSE [Rendered(page.section, "generate", 0) EXCEPT
                                !.generated = <<Data>>,
                                !.shown = <<"error_generating", "check_input">>]
            /\ UNCHANGED <<harnessVars, embedVars, runs, session_state>>

\* Generate Professional Resume
Generate ==
    \E fault \in Outcomes :
        /\ session_state.name = "" => fault = "ok"
        /\ LET resume_pdf == generate_ats_resume_pdf(Data, fault)
           IN  page' = IF Data.name = ""
                       THEN [Rendered(page.section, "generate", 0) EXCEPT
                                !.shown = <<"error_name">>]
                       ELSE IF resume_pdf.kind = "return"
                       THEN [Rendered(page.section, "generate", 0) EXCEPT
                                !.generated = <<Data>>,
                                !.shown = <<"success", DlName(Data.name), "info">>]
                       ELSE [Rendered(page.section, "generate", 0) EXCEPT
                                !.generated = <<Data>>,
                                !.shown = <<"error_generating", "check_input">>]
        /\ UNCHANGED <<harnessVars, embedVars, runs, session_state>>

(* One session, the user working on one of the three lists *)
InitBuilder ==
    /\ fn = "none" /\ args = <<>> /\ ret = NoRet
    /\ EmbedIdle
    /\ RunsIdle
    /\ session_state = FirstRender
    /\ \E section \in Sections : page = Rendered(section, "none", 0)

NextBuilder == EditRow \/ EditName \/ AddRow \/ RemoveRow \/ Generate

SpecBuilder == InitBuilder /\ [][NextBuilder]_vars

-----------------------------------------------------------------------------
(* The harness: one call of a pure function on inputs drawn by Init *)

(* cosine_similarity on any two vectors, of the same length or not, whose    *)
(* components may also be the smallest positive float of the model.          *)
CosineVectors == UNION {[1..n -> Components \cup {1}] : n \in 0..MaxDim}

InitCosine ==
    /\ fn = "cosine_similarity"
    /\ args \in [a : CosineVectors, b : CosineVectors]
    /\ ret = NoRet
    /\ EmbedIdle
    /\ RunsIdle
    /\ BuilderIdle

CallCosineSimilarity ==
    /\ fn = "cosine_similarity"
    /\ ret = NoRet
    /\ ret' = Return(cosine_similarity(args.a, args.b))
    /\ UNCHANGED <<fn, args>>
    /\ UNCHANGED <<embedVars, runs, builderVars>>

NextCosine == CallCosineSimilarity

SpecCosine == InitCosine /\ [][NextCosine]_vars

(* Scenario A: resume skills {python, sql}, job skills {python, aws} and two *)
(* identical vectors.                                                        *)
ScenarioA ==
    {[resume_vec |-> v, job_vec |-> v,
      resume_skills |-> <<"python", "sql">>, job_skills |-> <<"python", "aws">>] :
        v \in CosineVectors}

(* compute_match_score on: any two vectors with skill lists of at most one    *)
(* skill, or vectors of at most one component with any two skill lists.      *)
ScoreArgs ==
    {a \in [resume_vec : Vectors, job_vec : Vectors,
            resume_skills : SkillLists, job_skills : SkillLists] :
        \/ Len(a.resume_skills) <= 1 /\ Len(a.job_skills) <= 1
        \/ Len(a.resume_vec) <= 1 /\ Len(a.job_vec) <= 1}
    \cup ScenarioA

InitScore ==
    /\ fn = "compute_match_score"
    /\ args \in ScoreArgs
    /\ ret = NoRet
    /\ EmbedIdle
    /\ RunsIdle
    /\ BuilderIdle

CallComputeMatchScore ==
    /\ fn = "compute_match_score"
    /\ ret = NoRet
    /\ ret' = Return(compute_match_score(args.resume_vec, args.job_vec,
                                         args.resume_skills, args.job_skills))
    /\ UNCHANGED <<fn, args>>
    /\ UNCHANGED <<embedVars, runs, builderVars>>

NextScore == CallComputeMatchScore

SpecScore == InitScore /\ [][NextScore]_vars

Returned(f) == fn = f /\ ret.kind = "return"

(* top_k_matches on a query and a corpus of one-component vectors; the text  *)
(* of the i-th candidate is the atom i; the two corpus lists need not be of   *)
(* the same length.                                                           *)
CorpusVectors == {v \in Vectors : Len(v) = 1}
CorpusTexts == {[i \in 1..n |-> i] : n \in 0..MaxCorpus}
CorpusVecLists == UNION {[1..n -> CorpusVectors] : n \in 0..MaxCorpus}

InitTopK ==
    /\ fn = "top_k_matches"
    /\ args \in [query_vec : CorpusVectors, corpus_texts : CorpusTexts,
                  corpus_vecs : CorpusVecLists, k : -1..MaxK]
    /\ ret = NoRet
    /\ EmbedIdle
    /\ RunsIdle
    /\ BuilderIdle

CallTopKMatches ==
    /\ fn = "top_k_matches"
    /\ ret = NoRet
    /\ ret' = Return(top_k_matches(args.query_vec, args.corpus_texts,
                                   args.corpus_vecs, args.k))
    /\ UNCHANGED <<fn, args>>
    /\ UNCHANGED <<embedVars, runs, builderVars>>

NextTopK == CallTopKMatches

SpecTopK == InitTopK /\ [][NextTopK]_vars

(* The extractors of src/parsing.py, each on texts over the characters that  *)
(* matter to it.                                                             *)
SeqsUpTo(chars, n) == UNION {[1..k -> chars] : k \in 0..n}

NameTexts == SeqsUpTo({"a", " ", "\n"}, MaxNameLen)
PhoneTexts ==
    {pre \o body : pre \in {<<>>, <<"+">>, <<"x">>, <<" ">>},
                   body \in SeqsUpTo({"1", "-"}, MaxPhoneLen)}
EmailTexts == SeqsUpTo({"a", "@", "."}, MaxEmailLen)

\* the pieces the texts handed to extract_skills are put together from
SkillPieces ==
    {<<"g", "o">>, <<"c">>, <<"c", "#">>, <<"+">>, <<"3">>, <<" ">>, <<"/">>, <<".">>,
     <<"A", "w", "s">>}

RECURSIVE Concat(_, _)
\* the first n of the pieces, one after the other
Concat(pieces, n) == IF n = 0 THEN <<>> ELSE Concat(pieces, n - 1) \o pieces[n]

SkillTexts ==
    {Concat(ps, Len(ps)) : ps \in SeqsUpTo(SkillPieces, MaxPieces)} \cup BASIC_SKILLS

InitParsing ==
    /\ \/ fn = "extract_text_from_pdf" /\ args \in [pdf : PdfFiles]
       \/ fn = "extract_email" /\ args \in [text : EmailTexts]
       \/ fn = "extract_phone" /\ args \in [text : PhoneTexts]
       \/ fn = "extract_name" /\ args \in [text : NameTexts]
       \/ fn = "extract_skills" /\ args \in [text : SkillTexts]
    /\ ret = NoRet
    /\ EmbedIdle
    /\ RunsIdle
    /\ BuilderIdle

CallExtractTextFromPdf ==
    /\ fn = "extract_text_from_pdf"
    /\ ret = NoRet
    /\ ret' = extract_text_from_pdf(args.pdf)
    /\ UNCHANGED <<fn, args>>
    /\ UNCHANGED <<embedVars, runs, builderVars>>

CallExtractEmail ==
    /\ fn = "extract_email"
    /\ ret = NoRet
    /\ ret' = Return(extract_email(args.text))
    /\ UNCHANGED <<fn, args>>
    /\ UNCHANGED <<embedVars, runs, builderVars>>

CallExtractPhone ==
    /\ fn = "extract_phone"
    /\ ret = NoRet
    /\ ret' = Return(extract_phone(args.text))
    /\ UNCHANGED <<fn, args>>
    /\ UNCHANGED <<embedVars, runs, builderVars>>

CallExtractName ==
    /\ fn = "extract_name"
    /\ ret = NoRet
    /\ ret' = Return(extract_name(args.text))
    /\ UNCHANGED <<fn, args>>
    /\ UNCHANGED <<embedVars, runs, builderVars>>

CallExtractSkills ==
    /\ fn = "extract_skills"
    /\ ret = NoRet
    /\ ret' = Return(extract_skills(args.text))
    /\ UNCHANGED <<fn, args>>
    /\ UNCHANGED <<embedVars, runs, builderVars>>

NextParsing ==
    \/ CallExtractTextFromPdf
    \/ CallExtractEmail
    \/ CallExtractPhone
    \/ CallExtractName
    \/ CallExtractSkills

SpecParsing == InitParsing /\ [][NextParsing]_vars

(* A resume text taken through the extractors, the local embedding and the   *)
(* scoring: the facts of the text, its vector, and the match of that vector  *)
(* with a job vector for some resume and job skills.                         *)
JobVectors == [1..Dimension -> {0, Scale}]

ResumeArgs ==
    {a \in [text : Texts, job_vec : JobVectors,
            resume_skills : SkillLists, job_skills : SkillLists] :
        Len(a.job_skills) <= 1}

InitResume ==
    /\ fn = "resume_text"
    /\ args \in ResumeArgs
    /\ ret = NoRet
    /\ EmbedIdle
    /\ RunsIdle
    /\ BuilderIdle

\* name, email, phone and skills of the text
ExtractFacts ==
    /\ fn = "resume_text"
    /\ ret = NoRet
    /\ ret' = [kind |-> "facts",
               name |-> extract_name(args.text), email |-> extract_email(args.text),
               phone |-> extract_phone(args.text), skills |-> extract_skills(args.text)]
    /\ UNCHANGED <<fn, args>>
    /\ UNCHANGED <<embedVars, runs, builderVars>>

\* _LocalHashingEmbeddings(768).embed_documents([text])[0]
EmbedLocal ==
    /\ fn = "resume_text"
    /\ ret.kind = "facts"
    /\ ret' = [kind |-> "embedded",
               name |-> ret.name, email |-> ret.email, phone |-> ret.phone,
               skills |-> ret.skills,
               vector |-> embed_documents(Dimension, <<args.text>>)[1]]
    /\ UNCHANGED <<fn, args>>
    /\ UNCHANGED <<embedVars, runs, builderVars>>

\* compute_match_score(vector, job_vec, resume_skills, job_skills)
ScoreResume ==
    /\ fn = "resume_text"
    /\ ret.kind = "embedded"
    /\ ret' = Return([name |-> ret.name, email |-> ret.email, phone |-> ret.phone,
                      skills |-> ret.skills, vector |-> ret.vector,
                      match |-> compute_match_score(ret.vector, args.job_vec,
                                                    args.resume_skills, args.job_skills)])
    /\ UNCHANGED <<fn, args>>
    /\ UNCHANGED <<embedVars, runs, builderVars>>

NextResume == ExtractFacts \/ EmbedLocal \/ ScoreResume

SpecResume == InitResume /\ [][NextResume]_vars

(* build_workflow_trace on any list of stage results, the same stage name     *)
(* possibly more than once.                                                  *)
StepLists ==
    UNION {[1..n -> {AgentResult(name, <<>>, <<>>) : name \in Range(StageNames)}] :
              n \in 0..MaxSteps}

InitTrace ==
    /\ fn = "build_workflow_trace"
    /\ args \in [steps : StepLists]
    /\ ret = NoRet
    /\ EmbedIdle
    /\ RunsIdle
    /\ BuilderIdle

CallBuildWorkflowTrace ==
    /\ fn = "build_workflow_trace"
    /\ ret = NoRet
    /\ ret' = Return(build_workflow_trace(args.steps))
    /\ UNCHANGED <<fn, args>>
    /\ UNCHANGED <<embedVars, runs, builderVars>>

NextTrace == CallBuildWorkflowTrace

SpecTrace == InitTrace /\ [][NextTrace]_vars

(* A resume text and a job text embedded by a service with the local backend *)
(* and matched: texts of two letters and the blank, and skill lists whose    *)
(* overlap is none, a half and all.                                          *)
LocalTexts == UNION {[1..n -> {"A", "B", " "}] : n \in 0..MaxLocalLen}

LocalSkills ==
    {<< <<>>, <<>> >>, << <<"python">>, <<"python", "sql">> >>, << <<"sql">>, <<"sql">> >>}

LocalService == [_backend |-> _LocalHashingEmbeddings(Dimension)]

InitLocal ==
    /\ fn = "local_match"
    /\ args \in [resume_text : LocalTexts, job_text : LocalTexts, skills : LocalSkills]
    /\ ret = NoRet
    /\ EmbedIdle
    /\ RunsIdle
    /\ BuilderIdle

\* embed.embed_texts([resume_text, job_text]) of a service with the local backend
EmbedPair ==
    /\ fn = "local_match"
    /\ ret = NoRet
    /\ ret' = [kind |-> "embedded",
               vectors |-> embed_texts(LocalService, <<args.resume_text, args.job_text>>,
                                       "ok").value]
    /\ UNCHANGED <<fn, args>>
    /\ UNCHANGED <<embedVars, runs, builderVars>>

\* compute_match_score(resume_vec, job_vec, resume_skills, job_skills)
ScorePair ==
    /\ fn = "local_match"
    /\ ret.kind = "embedded"
    /\ ret' = Return([vectors |-> ret.vectors,
                      match |-> compute_match_score(ret.vectors[1], ret.vectors[2],
                                                    args.skills[1], args.skills[2])])
    /\ UNCHANGED <<fn, args>>
    /\ UNCHANGED <<embedVars, runs, builderVars>>

NextLocal == EmbedPair \/ ScorePair

SpecLocal == InitLocal /\ [][NextLocal]_vars

-----------------------------------------------------------------------------
(* src/r2.py: the gaps of an employment history.  A date is a month, counted  *)
(* from the first month of the history: year * 12 + month of the datetime.    *)

\* parse_date returns None
NoDate == -1

\* datetime.now()
Now == MaxMonth

\* the date strings: a month in one of the formats, present, and a string in
\* no format and without a year
DateStrings ==
    [kind : {"month"}, month : 0..MaxMonth] \cup
    {[kind |-> "present", month |-> 0], [kind |-> "invalid", month |-> 0]}

parse_date(date_str) ==
    IF date_str.kind = "present" THEN Now
    ELSE IF date_str.kind = "month" THEN date_str.month
    ELSE NoDate

RECURSIVE ParsedTo(_, _)
\* sorted_exp before the sort: the first n entries, those without a start date
\* left out and a missing end date replaced by now
ParsedTo(experience, n) ==
    IF n = 0 THEN <<>>
    ELSE LET exp == experience[n]
             start_date == parse_date(exp.start)
             end_date == parse_date(exp.end)
             before == ParsedTo(experience, n - 1)
         IN  IF start_date # NoDate
             THEN Append(before, [start |-> start_date,
                                  end |-> IF end_date # NoDate THEN end_date ELSE Now,
                                  title |-> exp.title, company |-> exp.company])
             ELSE before

\* x put into a list sorted by start, behind every entry that does not start later
InsertByStart(list, x) ==
    LET before == {i \in DOMAIN list : list[i].start <= x.start}
        n == Cardinality(before)
    IN  [i \in 1..(Len(list) + 1) |->
            IF i <= n THEN list[i] ELSE IF i = n + 1 THEN x ELSE list[i - 1]]

RECURSIVE SortByStartTo(_, _)
\* sorted_exp.sort(key=lambda x: x['start'])
SortByStartTo(list, n) ==
    IF n = 0 THEN <<>> ELSE InsertByStart(SortByStartTo(list, n - 1), list[n])

RECURSIVE GapsTo(_, _)
\* the gaps between the first n + 1 entries of sorted_exp
GapsTo(sorted_exp, n) ==
    IF n <= 0 THEN <<>>
    ELSE LET current_end == sorted_exp[n].end
             next_start == sorted_exp[n + 1].start
             gap_months == next_start - current_end
             before == GapsTo(sorted_exp, n - 1)
         IN  IF gap_months > 1
             THEN Append(before, [type |-> "employment",
                                  start_date |-> current_end, end_date |-> next_start,
                                  duration_months |-> gap_months,
                                  description |-> <<sorted_exp[n].title, sorted_exp[n].company,
                                                    sorted_exp[n + 1].title,
                                                    sorted_exp[n + 1].company>>])
             ELSE before

calculate_experience_gaps(experience) ==
    IF Len(experience) < 2 THEN <<>>
    ELSE LET parsed == ParsedTo(experience, Len(experience))
             sorted_exp == SortByStartTo(parsed, Len(parsed))
         IN  GapsTo(sorted_exp, Len(sorted_exp) - 1)

\* the entries of a history: a job from one month to a later one or to the
\* present, one without an end date, and one without a start date
JobEntries ==
    {[title |-> "dev", company |-> "X", start |-> s, end |-> e] :
        s \in DateStrings, e \in DateStrings} \cap
    {j \in [title : {"dev"}, company : {"X"}, start : DateStrings, end : DateStrings] :
        \/ j.start.kind = "month" /\ j.end.kind = "month" /\ j.start.month <= j.end.month
        \/ j.start.kind = "month" /\ j.end.kind = "present"
        \/ j.start.kind = "month" /\ j.start.month = 0 /\ j.end.kind = "invalid"
        \/ j.start.kind = "invalid" /\ j.end.kind = "present"}

Histories == UNION {[1..n -> JobEntries] : n \in 0..MaxJobs}

InitGaps ==
    /\ fn = "calculate_experience_gaps"
    /\ args \in [experience : Histories]
    /\ ret = NoRet
    /\ EmbedIdle
    /\ RunsIdle
    /\ BuilderIdle

CallCalculateExperienceGaps ==
    /\ fn = "calculate_experience_gaps"
    /\ ret = NoRet
    /\ ret' = Return(calculate_experience_gaps(args.experience))
    /\ UNCHANGED <<fn, args>>
    /\ UNCHANGED <<embedVars, runs, builderVars>>

NextGaps == CallCalculateExperienceGaps

SpecGaps == InitGaps /\ [][NextGaps]_vars

-----------------------------------------------------------------------------
(* Claims about src/scoring.py *)

\* C1: for all finite input vectors and all skill lists compute_match_score
\* returns a score in [0, 100] and a confidence in [0.5, 1.0].
C1_ScoreAndConfidenceInRange ==
    Returned("compute_match_score") =>
        /\ ret.value.score >= 0 /\ ret.value.score <= Float(100)
        /\ ret.value.confidence >= Scale \div 2 /\ ret.value.confidence <= Float(1)

\* C3: for k >= 0 and corpus lists of equal length top_k_matches returns
\* exactly min(k, len(candidate_texts)) snippets, their similarities
\* non-increasing.
C3_TopKLengthAndOrder ==
    (Returned("top_k_matches") /\ args.k >= 0
        /\ Len(args.corpus_texts) = Len(args.corpus_vecs)) =>
        /\ Len(ret.value) = Min(args.k, Len(args.corpus_texts))
        /\ \A i, j \in DOMAIN ret.value : i < j => ret.value[i][2] >= ret.value[j][2]

\* C3 happens: three candidates of three different similarities, given in
\* ascending order, cut to the best two.
C3_Witness ==
    /\ Returned("top_k_matches")
    /\ args.k = 2
    /\ args.query_vec = <<Scale>>
    /\ args.corpus_vecs = <<(<<-Scale>>), <<0>>, <<Scale>>>>
    /\ Len(args.corpus_texts) = 3
    /\ ret.value = <<(<<3, Scale>>), <<2, 0>>>>

\* C4: top_k_matches called with candidate_texts and candidate_vectors of
\* different lengths fails with an error instead of returning a result.
C4_MismatchedLengthsRaise ==
    (fn = "top_k_matches" /\ ret # NoRet
        /\ Len(args.corpus_texts) # Len(args.corpus_vecs)) => ret.kind = "raise"

\* C10: missing_skills is duplicate-free and alphabetically sorted, a subset
\* of the lowercased job skills, disjoint from the lowercased resume skills,
\* and holds every lowercased job skill absent from the lowercased resume
\* skills.
C10_MissingSkills ==
    Returned("compute_match_score") =>
        LET m == ret.value.missing_skills
            J == {lower(x) : x \in Range(args.job_skills)}
            R == {lower(x) : x \in Range(args.resume_skills)}
        IN  /\ \A i, j \in DOMAIN m : i < j => StrRank(m[i]) < StrRank(m[j])
            /\ Range(m) \subseteq J
            /\ Range(m) \cap R = {}
            /\ J \ R \subseteq Range(m)

\* C10 happens: mixed-case job skills given in descending order.
C10_Witness ==
    /\ Returned("compute_match_score")
    /\ args.job_skills = <<"sql", "Python">>
    /\ args.resume_skills = <<>>
    /\ ret.value.missing_skills = <<"python", "sql">>

\* C10 happens: a duplicated job skill the resume names in another case.
C10_WitnessDuplicate ==
    /\ Returned("compute_match_score")
    /\ args.job_skills = <<"Python", "Python">>
    /\ args.resume_skills = <<"python">>
    /\ ret.value.missing_skills = <<>>

IsZeroVector(v) == \A i \in DOMAIN v : v[i] = 0

\* C11: the jaccard value of compute_match_score is the same with the two
\* skill lists exchanged, is 1.0 when the two skill sets are the same non-empty
\* set, is 0.0 when both are empty, and lies in [0, 1].
C11_JaccardSymmetricAndBounded ==
    Returned("compute_match_score") =>
        LET J == {lower(x) : x \in Range(args.job_skills)}
            R == {lower(x) : x \in Range(args.resume_skills)}
            swapped == compute_match_score(args.resume_vec, args.job_vec,
                                           args.job_skills, args.resume_skills)
        IN  /\ ret.value.jaccard = swapped.jaccard
            /\ (R = J /\ R # {}) => ret.value.jaccard = Float(1)
            /\ (R = {} /\ J = {}) => ret.value.jaccard = 0
            /\ ret.value.jaccard >= 0 /\ ret.value.jaccard <= Float(1)

\* C11 happens: one of two job skills is among the resume skills, which are a
\* proper subset of the job skills.
C11_Witness ==
    /\ Returned("compute_match_score")
    /\ args.resume_skills = <<"Python">>
    /\ args.job_skills = <<"python", "sql">>
    /\ ret.value.jaccard = Scale \div 2

\* C11 happens: the same non-empty set, written in two ways.
C11_WitnessSameSet ==
    /\ Returned("compute_match_score")
    /\ args.resume_skills = <<"Python", "sql">>
    /\ args.job_skills = <<"sql", "python">>
    /\ ret.value.jaccard = Float(1)

\* C12: cosine_similarity(v, v) is 1.0 for every non-zero vector v, and
\* cosine_similarity(v, z) is 0.0, with no division error, whenever z is the
\* all-zero vector, v = z included.
C12_CosineOfSelfAndOfZero ==
    (fn = "cosine_similarity" /\ ret # NoRet) =>
        /\ ret.kind = "return"
        /\ (args.a = args.b /\ ~IsZeroVector(args.a)) => ret.value = Float(1)
        /\ (IsZeroVector(args.b) /\ Len(args.a) = Len(args.b)) => ret.value = 0

\* C13: the score of compute_match_score is 100 * clamp(0.7 * similarity +
\* 0.3 * jaccard, 0, 1); with resume skills {python, sql}, job skills
\* {python, aws} and identical non-zero vectors, jaccard is 1/3, the score is
\* 80 and missing_skills is ["aws"].
C13_ScoreFormulaAndScenarioA ==
    Returned("compute_match_score") =>
        /\ ret.value.score =
              FMul(Max(0, Min(Float(1), FMul((7 * Scale) \div 10, ret.value.similarity)
                                        + FMul((3 * Scale) \div 10, ret.value.jaccard))),
                   Float(100))
        /\ (args \in ScenarioA /\ ~IsZeroVector(args.resume_vec)) =>
              /\ ret.value.jaccard = FDiv(Float(1), Float(3))
              /\ ret.value.score = Float(80)
              /\ ret.value.missing_skills = <<"aws">>

\* C15: cosine_similarity returns no similarity value for two vectors of
\* different lengths: the call is an error.
C15_DifferentDimensionsAreAnError ==
    (fn = "cosine_similarity" /\ ret # NoRet /\ Len(args.a) # Len(args.b)) =>
        ret.kind = "raise"

C16_WitnessZeroVector ==
    /\ Returned("compute_match_score")
    /\ args.resume_vec = <<0, 0>> /\ args.job_vec = <<Scale, -Scale>>
    /\ args.resume_skills = <<"sql">> /\ args.job_skills = <<>>
    /\ ret.value.score = 0

-----------------------------------------------------------------------------
(* Claims about src/embeddings.py *)

\* C7: constructing EmbeddingService never raises, whatever the credential,
\* the import of the remote client library and the remote constructor do, and
\* whenever the remote client is not built the provider uses the local
\* hashing strategy.
C7_ConstructionNeverRaises ==
    fn = "EmbeddingService" =>
        /\ ret.kind = "return"
        /\ args.ctor # "ok" =>
              services[args.svc]._backend = _LocalHashingEmbeddings(Dimension)

\* C7 happens: a credential is set, the library is imported and the remote
\* constructor throws.
C7_Witness ==
    /\ fn = "EmbeddingService"
    /\ args.ctor = "Exception"
    /\ ret.kind = "return"
    /\ IsLocal(services[args.svc])

\* C7 happens: no credential, and the library could not be imported.
C7_WitnessNoLibrary ==
    /\ fn = "EmbeddingService"
    /\ args.ctor = "not called"
    /\ module.GoogleGenerativeAIEmbeddings = None
    /\ ~Truthy(environ.GEMINI_API_KEY) /\ ~Truthy(environ.GOOGLE_API_KEY)
    /\ IsLocal(services[args.svc])

\* C8: with the local strategy the same text always embeds to the same vector:
\* within one call, and against any embedding remembered from an earlier call
\* on this or another instance.
C8_LocalEmbeddingDeterministic ==
    (Pending /\ ret.kind = "return" /\ IsLocal(services[args.svc])) =>
        \A n \in DOMAIN args.texts :
            /\ \A m \in DOMAIN args.texts :
                  args.texts[m] = args.texts[n] => ret.value[m] = ret.value[n]
            /\ (earlier # NoMemory /\ earlier.text = args.texts[n]) =>
                  ret.value[n] = earlier.vector

\* C8 happens: a text embedded by one instance is embedded again by the other
\* instance, behind another text of the same call.
C8_Witness ==
    /\ Pending /\ ret.kind = "return" /\ IsLocal(services[args.svc])
    /\ earlier # NoMemory /\ earlier.svc # args.svc
    /\ Len(args.texts) = 2
    /\ args.texts[1] # args.texts[2]
    /\ args.texts[2] = earlier.text
    /\ ret.value[2] = earlier.vector

\* C9: embed_texts returns one vector per input text, the n-th being what
\* embed_query returns for the n-th text alone, and every vector has the
\* dimension the provider reports.
C9_OneVectorPerTextOfReportedDimension ==
    (fn = "embed_texts" /\ ret.kind = "return") =>
        /\ Len(ret.value) = Len(args.texts)
        /\ \A n \in DOMAIN args.texts :
            /\ ret.value[n] = embed_query(services[args.svc], args.texts[n], "ok").value
            /\ Len(ret.value[n]) = EmbeddingService_dimension(services[args.svc])

-----------------------------------------------------------------------------
(* Claims about the analysis run *)

C5_MalformedPdfRaisesDocumentFormatError ==
    \A r \in RunIds :
        (~runs[r].resume_file.parseable /\ runs[r].executed # <<>>) =>
            /\ runs[r].pc = "aborted"
            /\ runs[r].error = [stage |-> "ParseResume", kind |-> "DocumentFormatError"]
            /\ runs[r].executed = <<"ParseResume">>

\* C6: once a stage has failed, it is the last stage that executed, no stage
\* has executed twice, and no trace is built and nothing is shown.
C6_FailFast ==
    \A r \in RunIds :
        /\ \A i, j \in DOMAIN runs[r].executed :
              i # j => runs[r].executed[i] # runs[r].executed[j]
        /\ (runs[r].error # NoError /\ runs[r].error.stage # "Report") =>
              /\ runs[r].executed # <<>> =>
                    runs[r].executed[Len(runs[r].executed)] = runs[r].error.stage
              /\ ~runs[r].trace.built
              /\ runs[r].shown = <<>>
              /\ runs[r].pc = "aborted"

\* C6 happens: the third stage failed after two stages had succeeded.
C6_Witness ==
    /\ runs[1].pc = "aborted"
    /\ runs[1].error.stage = "EnhanceContent"
    /\ Len(runs[1].steps) = 2
    /\ runs[1].executed = <<"ParseResume", "ParseJob", "EnhanceContent">>

-----------------------------------------------------------------------------
(* Claims about src/parsing.py *)

\* C14: for the empty resume text the extractors return name = None, email =
\* None, phone = None and skills = []; the local embedding is the all-zero
\* vector; and scoring that vector against any job vector gives similarity 0
\* and the score 100 * 0.3 * jaccard.
C14_EmptyResumeText ==
    (fn = "resume_text" /\ args.text = <<>>) =>
        /\ ret.kind \in {"facts", "embedded"} =>
              /\ ret.name = NoneText /\ ret.email = NoneText /\ ret.phone = NoneText
              /\ ret.skills = <<>>
        /\ ret.kind = "embedded" =>
              ret.vector = [i \in 1..Dimension |-> 0]
        /\ ret.kind = "return" =>
              /\ ret.value.name = NoneText /\ ret.value.email = NoneText
              /\ ret.value.phone = NoneText /\ ret.value.skills = <<>>
              /\ ret.value.vector = [i \in 1..Dimension |-> 0]
              /\ ret.value.match.similarity = 0
              /\ ret.value.match.score =
                    FMul(FMul((3 * Scale) \div 10, ret.value.match.jaccard), Float(100))

\* C14 happens: the empty text was scored against a non-zero job vector, one
\* of the two resume skills being the job skill.
C14_Witness ==
    /\ fn = "resume_text" /\ ret.kind = "return"
    /\ args.text = <<>>
    /\ \A i \in 1..Dimension : args.job_vec[i] = Scale
    /\ args.resume_skills = <<"Python", "sql">>
    /\ args.job_skills = <<"python">>
    /\ ret.value.match.jaccard = Scale \div 2
    /\ ret.value.match.score = Float(15)

PageTexts(pdf) ==
    [i \in DOMAIN pdf.pages |->
        IF pdf.pages[i].kind = "text" THEN pdf.pages[i].text ELSE <<>>]

\* C17: for a parseable document of n pages extract_text_from_pdf returns the
\* n texts of the pages, in page order, joined by n - 1 newlines; a page whose
\* extraction fails, or that has no text, contributes the empty string and
\* never aborts the document.
C17_FailedPageContributesEmptyString ==
    (fn = "extract_text_from_pdf" /\ ret # NoRet /\ args.pdf.parseable) =>
        /\ ret.kind = "return"
        /\ ret.value = JoinTo(PageTexts(args.pdf), Len(args.pdf.pages))

\* the first line that is not blank, stripped; None when every line is blank
FirstNonEmptyLine(text) ==
    LET lines == splitlines(text)
        solid == {i \in DOMAIN lines : strip(lines[i]) # <<>>}
    IN  IF solid = {} THEN NoneText
        ELSE strip(lines[CHOOSE i \in solid : \A j \in solid : i <= j])

\* C18: extract_name returns the first non-empty line of the text, leading
\* blank lines skipped, when it has between 2 and 5 words and at most 64
\* characters, and None otherwise.
C18_NameIsFirstNonEmptyLine ==
    Returned("extract_name") =>
        LET line == FirstNonEmptyLine(args.text)
        IN  ret.value =
               IF line # NoneText /\ 2 <= WordCount(line) /\ WordCount(line) <= 5
                  /\ Len(line) <= 64
               THEN line ELSE NoneText

\* the runs of digits of a text
DigitRuns(text) ==
    Range(RunsFrom({"0", "1", "2", "3", "4", "5", "6", "7", "8", "9"}, text, 1, <<>>))

\* the number of digits in a run of the characters of a phone number
DigitsIn(run) == Cardinality({i \in DOMAIN run : IsDigit(run[i])})

\* C19: extract_phone returns a phone number for a text that holds a run of
\* exactly 8 digits, and None for a text in which every run of digits, '+',
\* spaces and hyphens holds fewer than 8 digits.
C19_PhoneIsDigitRunOfEight ==
    Returned("extract_phone") =>
        /\ (\E run \in DigitRuns(args.text) : Len(run) = 8) => ret.value # NoneText
        /\ (\A run \in Range(RunsFrom({"0", "1", "2", "3", "4", "5", "6", "7", "8", "9",
                                       "+", " ", "-"}, args.text, 1, <<>>)) :
                DigitsIn(run) < 8) => ret.value = NoneText

\* C20: extract_skills returns the sorted, duplicate-free vocabulary skills
\* that are a whole token of the text, the tokens being the maximal runs of
\* lowercase alphanumeric characters and '#', '+', '.', '-'; and every skill
\* of the vocabulary is returned for the text that is that skill.
C20_SkillsAreWholeAlphanumericTokens ==
    Returned("extract_skills") =>
        LET tokens == Range(RunsFrom(SkillTokenChars \cup
                                        {"0", "1", "2", "3", "4", "5", "6", "7", "8", "9"},
                                     text_lower(args.text), 1, <<>>))
        IN  /\ ret.value = sorted_texts(BASIC_SKILLS \cap tokens)
            /\ args.text \in BASIC_SKILLS => ret.value = <<args.text>>

-----------------------------------------------------------------------------
(* Further claims about top_k_matches and build_workflow_trace *)

\* C25: in the result of top_k_matches candidates of equal similarity stand
\* in their input order, and of several candidates of equal similarity the
\* ones cut off by the truncation are the ones later in the input.  (The text
\* of the i-th candidate is i.)
C25_TiesKeepInputOrder ==
    (Returned("top_k_matches") /\ args.k >= 0) =>
        LET n == Min(Len(args.corpus_texts), Len(args.corpus_vecs))
            sim(i) == cosine_similarity(args.query_vec, args.corpus_vecs[i])
            kept == {ret.value[j][1] : j \in DOMAIN ret.value}
        IN  /\ \A i, j \in DOMAIN ret.value :
                  (i < j /\ ret.value[i][2] = ret.value[j][2]) =>
                      ret.value[i][1] < ret.value[j][1]
            /\ \A c \in kept, d \in (1..n) \ kept : sim(c) = sim(d) => c < d

\* C25 happens: three candidates, the first and the third of the same
\* similarity and the second of a lower one, cut to two.
C25_Witness ==
    /\ Returned("top_k_matches")
    /\ args.k = 2
    /\ args.query_vec = <<Scale>>
    /\ Len(args.corpus_texts) = 3
    /\ args.corpus_vecs = <<(<<Scale>>), <<0>>, <<Scale>>>>
    /\ ret.value = <<(<<1, Scale>>), <<3, Scale>>>>

\* C25 happens: three candidates of the same similarity, cut to two: the last
\* one is cut off.
C25_WitnessCut ==
    /\ Returned("top_k_matches")
    /\ args.k = 2
    /\ Len(args.corpus_texts) = 3
    /\ args.corpus_vecs = <<(<<0>>), <<0>>, <<0>>>>
    /\ ret.value = <<(<<1, 0>>), <<2, 0>>>>

\* C26: top_k_matches never returns more than k snippets, for any integer k:
\* for k = 0 and for every negative k the result is empty.
C26_NeverMoreThanK ==
    Returned("top_k_matches") =>
        /\ args.k >= 0 => Len(ret.value) <= args.k
        /\ args.k <= 0 => ret.value = <<>>

\* C22: build_workflow_trace never fails; the steps of the trace are the given
\* results in the given order, and its edges are exactly the n - 1 pairs of
\* consecutive stage names, in order: none when n <= 1.
C22_TraceOfAnyStepList ==
    (fn = "build_workflow_trace" /\ ret # NoRet) =>
        /\ ret.kind = "return"
        /\ ret.value.steps = args.steps
        /\ Len(ret.value.edges) = Max(Len(args.steps) - 1, 0)
        /\ \A i \in DOMAIN ret.value.edges :
              ret.value.edges[i] = <<args.steps[i].name, args.steps[i + 1].name>>

\* C22 happens: no step at all.
C22_Witness ==
    /\ Returned("build_workflow_trace")
    /\ args.steps = <<>>
    /\ ret.value.steps = <<>> /\ ret.value.edges = <<>>

\* C22 happens: one step, and no edge.
C22_WitnessOneStep ==
    /\ Returned("build_workflow_trace")
    /\ Len(args.steps) = 1
    /\ ret.value.edges = <<>>

\* C22 happens: the same stage three times.
C22_WitnessRepeated ==
    /\ Returned("build_workflow_trace")
    /\ Len(args.steps) = 3
    /\ \A i \in 1..3 : args.steps[i].name = "ParseJob"
    /\ ret.value.edges = << <<"ParseJob", "ParseJob">>, <<"ParseJob", "ParseJob">> >>

-----------------------------------------------------------------------------
(* Claims about the configuration of EmbeddingService *)

\* C23: the credential and the model name of a provider are the values of the
\* environment at the moment it is constructed, also when the environment
\* has changed since the module was imported: a remote provider has the model
\* GEMINI_EMBED_MODEL names then (text-embedding-004 when it names none), with
\* the models/ prefix, and the credential GEMINI_API_KEY or GOOGLE_API_KEY
\* has then; and a provider constructed with no credential is local.
C23_ProviderReflectsEnvironAtConstruction ==
    [][\A id \in ServiceIds :
          (services[id] = NoService /\ services'[id] # NoService) =>
              LET backend == services'[id]._backend
                  api_key == Or(environ.GEMINI_API_KEY, environ.GOOGLE_API_KEY)
              IN  /\ ~Truthy(api_key) => backend.kind = "local"
                  /\ backend.kind = "remote" =>
                        /\ backend.google_api_key = api_key
                        /\ backend.model =
                              WithModelsPrefix(getenv(environ, "GEMINI_EMBED_MODEL",
                                                      "text-embedding-004"))]_vars

\* C24: the backend of a provider is chosen once, by the constructor: no call
\* of embed_texts or embed_query, successful or failed, and no later change
\* of the environment replaces or changes it.
C24_BackendChosenOnce ==
    [][\A id \in ServiceIds :
          services[id] # NoService => services'[id] = services[id]]_vars

\* C24 happens: a call on a remote provider has failed, and the provider is
\* still remote, with its model and credential.
C24_Witness ==
    /\ fn \in {"embed_texts", "embed_query"}
    /\ ret.kind = "raise"
    /\ services[args.svc]._backend.kind = "remote"

\* C24 happens: a provider constructed without a credential has embedded with
\* its local backend after the environment has got a credential.
C24_WitnessEnviron ==
    /\ fn \in {"embed_texts", "embed_query"}
    /\ ret.kind = "return"
    /\ IsLocal(services[1])
    /\ args.svc = 1
    /\ module.GoogleGenerativeAIEmbeddings = "class"
    /\ Truthy(environ.GEMINI_API_KEY)
    /\ services[2] # NoService /\ ~IsLocal(services[2])

-----------------------------------------------------------------------------
(* Claims about matching with the local backend *)

\* C27: every vector of the local hashing backend has only non-negative
\* components, so the cosine similarity of two texts it has embedded is at
\* least 0, and their match has a confidence of at least 0.5 and a score of at
\* least 100 * (0.3 * jaccard).
C27_LocalVectorsNonNegative ==
    /\ (fn = "local_match" /\ ret.kind \in {"embedded", "return"}) =>
          /\ \A n \in DOMAIN (IF ret.kind = "return" THEN ret.value.vectors ELSE ret.vectors) :
                LET v == (IF ret.kind = "return" THEN ret.value.vectors ELSE ret.vectors)[n]
                IN  \A i \in DOMAIN v : v[i] >= 0
          /\ LET vs == IF ret.kind = "return" THEN ret.value.vectors ELSE ret.vectors
             IN  cosine_similarity(vs[1], vs[2]) >= 0
    /\ Returned("local_match") =>
          LET match == ret.value.match
          IN  /\ match.similarity >= 0
              /\ match.confidence >= Scale \div 2
              /\ match.score >= FMul(FMul((3 * Scale) \div 10, match.jaccard), Float(100))

\* C27 happens: two texts of two different tokens each, one token in common,
\* and half of the skills: the similarity is between 0 and 1 and the score
\* above the part of the skills.
C27_Witness ==
    /\ Returned("local_match")
    /\ args.resume_text = <<"A", " ", "B">>
    /\ args.job_text = <<"A">>
    /\ ret.value.match.similarity > 0 /\ ret.value.match.similarity < Scale
    /\ ret.value.match.jaccard = Scale \div 2
    /\ ret.value.match.score > FMul(FMul((3 * Scale) \div 10, ret.value.match.jaccard), Float(100))

\* C27 happens: two texts with no token in common: the similarity is 0, the
\* confidence 0.5 and the score is the part of the skills.
C27_WitnessOrthogonal ==
    /\ Returned("local_match")
    /\ args.resume_text = <<"A">>
    /\ args.job_text = <<"B">>
    /\ ret.value.match.similarity = 0
    /\ ret.value.match.confidence = Scale \div 2
    /\ ret.value.match.jaccard = Scale
    /\ ret.value.match.score = 30 * Scale

-----------------------------------------------------------------------------
(* Claims about concurrent runs *)

\* the steps of a run of this file and job text on its own, none of its
\* stages failing, with a provider whose remote constructor ended as ctor
StepsAlone(file, job, ctor) ==
    LET embed == EmbeddingService_init(environ, module, ctor).value
        a1 == resume_parser_agent(file).value
    IN  <<a1, job_parser_agent(job, "ok").value,
          content_enhancer_agent(a1.outputs.raw_text, "ok").value,
          matcher_and_scoring_agent(a1.outputs.raw_text, job, embed, "ok").value>>

C21_WitnessInterleaved ==
    /\ runs[1].pc = "MatchAndScore" /\ Len(runs[1].steps) = 3
    /\ runs[2].pc = "ParseJob" /\ Len(runs[2].steps) = 1

-----------------------------------------------------------------------------
(* Claims about the gaps of an employment history *)

\* the months in which the job of an entry with a start date was held
MonthsHeld(exp) ==
    LET start_date == parse_date(exp.start)
        end_date == parse_date(exp.end)
    IN  IF start_date = NoDate THEN {}
        ELSE start_date..(IF end_date # NoDate THEN end_date ELSE Now)

\* C29: every gap calculate_experience_gaps reports is of more than one month
\* and is a period in which no job of the history was held, also when jobs
\* overlap or lie within one another: no month between the month the gap
\* starts in and the month it ends in is a month of a job.
C29_GapsAreWithoutJob ==
    Returned("calculate_experience_gaps") =>
        \A g \in DOMAIN ret.value :
            /\ ret.value[g].duration_months > 1
            /\ \A n \in DOMAIN args.experience :
                  MonthsHeld(args.experience[n]) \cap
                      ((ret.value[g].start_date + 1)..(ret.value[g].end_date - 1)) = {}

-----------------------------------------------------------------------------
(* Claims about the resume builder *)

\* C28: whatever edits, added rows and removed rows came before, removing row
\* i of a list deletes the content of row i and nothing else: the rows shown
\* afterwards are the rows shown before without row i, the rows behind it
\* moved up by one, and the other lists show what they showed.
C28_RemoveDeletesRowI ==
    [][page'.event.op = "remove" =>
          /\ session_state'.widgets[page'.section] =
                 Pop(session_state.widgets[page'.section], page'.event.row)
          /\ \A s \in Sections \ {page'.section} :
                 session_state'.widgets[s] = session_state.widgets[s]]_vars

C30_Witness ==
    /\ page.event.op = "generate"
    /\ session_state.name = ""
    /\ Entered(page.section) # <<>>
    /\ page.shown = <<"error_name">>

C30_WitnessDownload ==
    /\ page.event.op = "generate"
    /\ session_state.name = "A B"
    /\ page.shown = <<"success", "a_b_professional_resume.pdf", "info">>

====
